---- MODULE Spec2Model ----
(***************************************************************************)
(* Model of the portfolio risk & alerting engine of defi-wallet-tracker:   *)
(* LiveRiskService (src/src/services/liveRiskService.ts) driven by the     *)
(* JavaScript event loop (synchronous caller code, promise microtasks,     *)
(* setInterval macrotasks) and by its consumers.                           *)
(*                                                                         *)
(* Numbers.  Token values and risk scores are integers.  change24h is kept *)
(* in hundredths of a percent (2001 is 20.01%).  Quotients are kept as     *)
(* numerator/denominator and Math.round is computed exactly on them.       *)
(***************************************************************************)
EXTENDS Integers, Sequences, FiniteSets, TLC

(***************************************************************************)
(* Bounds of the model                                                     *)
(***************************************************************************)
\* evaluations (assessPortfolioRisk calls) in one behaviour
MaxEvals == 2
\* largest clock reading (Date.now())
MaxTime == 1
\* subscribe() calls in one behaviour
MaxRegs == 2

\* an absent optional string field
None == "undefined"
\* an absent optional number field; a present one is <<n>>, a quotient <<n, d>>
NoValue == <<>>

(***************************************************************************)
(* Inputs                                                                  *)
(***************************************************************************)
Tok(sym, val, chg, risk) ==
    [symbol |-> sym, value |-> val, change24h |-> chg, riskScore |-> risk]

\* An array slot that was never assigned (a hole of a sparse array): it
\* counts in tokens.length and reads as undefined, and reduce and filter
\* skip it.
Hole == [hole |-> TRUE]

\* An array element that is undefined or null: reduce and filter visit it,
\* and reading a property of it raises a TypeError.
Undefined == [undefined |-> TRUE]

\* a wallet that holds nothing
EmptyPortfolio == [tokens |-> <<>>, totalValue |-> 0]

\* the shares and changes of the end-to-end scenario of the specification
MixedPortfolio ==
    [tokens |-> <<Tok("ETH", 800, 500, 80), Tok("SHIB", 200, 3500, 20)>>,
     totalValue |-> 1000]

\* one calm, well-rated token holding the whole value
SinglePortfolio == [tokens |-> <<Tok("BTC", 1500, 100, 90)>>, totalValue |-> 1500]

Portfolios == {EmptyPortfolio, MixedPortfolio, SinglePortfolio}

\* The portfolios a single evaluation is checked on.  Values are in currency
\* units, change24h in hundredths of a percent, so 2000 is 20% and 2001 the
\* 20.01% just above it.
MaxTokens == 8

Symbols == <<"ETH", "BTC", "SHIB", "USDC", "DAI", "LINK", "UNI", "AAVE",
             "MKR", "SNX">>

TokenValues == {200, 1500}

TokenChanges == {-2001, -2000, 0, 100, 1500, 1600, 2000, 2001}

TokenRisks == {0, 19, 20, 39, 40, 90}

\* one token, with a totalValue that is 0, the sum of the values, or neither
OneTokenPortfolios ==
    UNION {{[tokens |-> <<Tok("BTC", v, c, r)>>, totalValue |-> t] :
               c \in TokenChanges, r \in TokenRisks, t \in {0, v, 1000}} :
           v \in TokenValues}

\* two calm tokens sharing a total of 1000
TwoTokenPortfolios ==
    {[tokens |-> <<Tok("ETH", a, 0, 50), Tok("SHIB", 1000 - a, 0, 50)>>,
      totalValue |-> 1000] :
        a \in {76, 82, 176, 184, 500, 816, 824, 918, 924}}

\* three tokens of equal value, each just under or just over the threshold
ThreeTokenPortfolios ==
    {[tokens |-> <<Tok("ETH", 100, c1, 50), Tok("BTC", 100, c2, 50),
                   Tok("SHIB", 100, c3, 50)>>,
      totalValue |-> 300] :
        c1 \in {-2001, 2000, 2001}, c2 \in {-2001, 2000, 2001},
        c3 \in {-2001, 2000, 2001}}

\* n tokens of the same value, totalValue their sum
EqualPortfolio(n, v) ==
    [tokens |-> [i \in 1..n |-> Tok(Symbols[i], v, 0, 50)], totalValue |-> n * v]

EqualPortfolios == {EqualPortfolio(n, v) : n \in 1..MaxTokens, v \in {100, 250}}

\* two tokens that put concentrationRisk, liquidityScore and securityScore on
\* the thresholds (70, 30, 40 and 85, 15, 20) or one step beyond them
BoundaryPortfolio(a, c, r) ==
    [tokens |-> <<Tok("ETH", a, c, r), Tok("SHIB", 1000 - a, c, r)>>,
     totalValue |-> 1000]

BoundaryPortfolios ==
    {BoundaryPortfolio(816, 750, 40), BoundaryPortfolio(824, 850, 39),
     BoundaryPortfolio(918, 2250, 20), BoundaryPortfolio(924, 2350, 19)}

\* Sparse token arrays of length 2 (built by `tokens[1] = token` or
\* `delete tokens[1]`): one token and one slot never assigned, first or last
SparsePortfolios ==
    UNION {{[tokens |-> ts, totalValue |-> v] :
               ts \in UNION {{<<Hole, Tok("BTC", v, c, r)>>,
                              <<Tok("BTC", v, c, r), Hole>>} :
                                 c \in TokenChanges, r \in TokenRisks}} :
           v \in TokenValues}

\* a portfolio whose concentration rule raises: slot 0 of the token array
\* was never assigned
RejectingPortfolio ==
    [tokens |-> <<Hole, Tok("BTC", 1500, 2500, 90)>>, totalValue |-> 1500]

\* a portfolio whose metrics cannot be computed: an undefined token
ThrowingPortfolio ==
    [tokens |-> <<Undefined, Tok("BTC", 1500, 100, 90)>>, totalValue |-> 1500]

FaultyPortfolios == {SinglePortfolio, RejectingPortfolio, ThrowingPortfolio}

\* no token, with a totalValue that is 0 or not
NoTokenPortfolios == {[tokens |-> <<>>, totalValue |-> t] : t \in {0, 1000}}

\* portfolios without a token list, or without a totalValue
MissingFieldPortfolios ==
    {[totalValue |-> 0], [totalValue |-> 1000], [tokens |-> <<>>],
     [tokens |-> <<Tok("BTC", 1500, 100, 90)>>]}

\* empty or degenerate portfolios: no token list, an empty one, or tokens
\* (in a dense or a sparse array) with totalValue 0
DegeneratePortfolios ==
    MissingFieldPortfolios \cup NoTokenPortfolios
        \cup {p \in OneTokenPortfolios : p.totalValue = 0}
        \cup {[p EXCEPT !.totalValue = 0] : p \in SparsePortfolios}

\* one or two tokens that are worth nothing
ZeroValuePortfolios == {EqualPortfolio(n, 0) : n \in 1..2}

\* dense token lists whose totalValue is the sum of the token values
SummedPortfolios ==
    {[tokens |-> <<>>, totalValue |-> 0]} \cup ZeroValuePortfolios
        \cup {p \in OneTokenPortfolios : p.totalValue = p.tokens[1].value}
        \cup TwoTokenPortfolios \cup ThreeTokenPortfolios \cup EqualPortfolios
        \cup BoundaryPortfolios

RulePortfolios ==
    Portfolios \cup NoTokenPortfolios \cup OneTokenPortfolios
        \cup TwoTokenPortfolios \cup ThreeTokenPortfolios \cup EqualPortfolios
        \cup BoundaryPortfolios

Callbacks == {"cbA", "cbB"}

AlertTypes ==
    {"price_volatility", "concentration_risk", "liquidity_drop",
     "security_threat", "market_crash"}

(***************************************************************************)
(* Arithmetic helpers                                                      *)
(***************************************************************************)
Abs(x) == IF x < 0 THEN -x ELSE x

Min(a, b) == IF a < b THEN a ELSE b

Max(a, b) == IF a > b THEN a ELSE b

\* Math.round(n / d) for d > 0: floor(n/d + 1/2)
Round(n, d) == (2 * n + d) \div (2 * d)

RECURSIVE SumSeq(_)
SumSeq(s) == IF s = <<>> THEN 0 ELSE Head(s) + SumSeq(Tail(s))

(***************************************************************************)
(* Portfolio Risk Aggregator                                               *)
(***************************************************************************)
IsToken(t) == t # Hole

\* the elements reduce and filter visit
Present(tokens) == SelectSeq(tokens, IsToken)

\* portfolio.tokens || [] : a portfolio without a token list reads as empty
tokensOf(portfolio) ==
    IF "tokens" \in DOMAIN portfolio THEN portfolio.tokens ELSE <<>>

\* portfolio.totalValue || 0 : a portfolio without a totalValue reads as 0
totalValueOf(portfolio) ==
    IF "totalValue" \in DOMAIN portfolio THEN portfolio.totalValue ELSE 0

\* token.riskScore || 50 : a falsy score (0) reads as 50
RiskOrDefault(token) == IF token.riskScore = 0 THEN 50 ELSE token.riskScore

calculatePortfolioRiskScore(tokens, totalValue) ==
    IF Len(tokens) = 0 \/ totalValue = 0 THEN 0
    ELSE LET held == Present(tokens)
         IN  Round(SumSeq([i \in 1..Len(held) |->
                              held[i].riskScore * held[i].value]),
                   totalValue)

\* sum of |change24h| over the tokens, in hundredths of a percent
SumAbsChange(tokens) ==
    LET held == Present(tokens)
    IN  SumSeq([i \in 1..Len(held) |-> Abs(held[i].change24h)])

calculateVolatilityIndex(tokens) ==
    IF Len(tokens) = 0 THEN 0
    ELSE Min(100, Round(2 * SumAbsChange(tokens), 100 * Len(tokens)))

\* valueScore = min(100, avgValue / 1000 * 50) and
\* volatilityScore = max(0, 50 - avgVolatility * 2), both over 100 * n
calculateLiquidityScore(tokens) ==
    IF Len(tokens) = 0 THEN 0
    ELSE LET n == Len(tokens)
             held == Present(tokens)
             sumValue == SumSeq([i \in 1..Len(held) |-> held[i].value])
             valueScore == Min(100 * 100 * n, 5 * sumValue)
             volatilityScore == Max(0, 50 * 100 * n - 2 * SumAbsChange(tokens))
         IN  Round(valueScore + volatilityScore, 2 * 100 * n)

\* the index truncated to an integer instead of rounded
calculateConcentrationRiskTruncated(tokens, totalValue) ==
    IF Len(tokens) = 0 \/ totalValue = 0 THEN 0
    ELSE LET held == Present(tokens)
         IN  (100 * SumSeq([i \in 1..Len(held) |-> held[i].value * held[i].value]))
                \div (totalValue * totalValue)

calculateConcentrationRisk(tokens, totalValue) ==
    IF Len(tokens) = 0 \/ totalValue = 0 THEN 0
    ELSE LET held == Present(tokens)
         IN  Round(100 * SumSeq([i \in 1..Len(held) |->
                                    held[i].value * held[i].value]),
                   totalValue * totalValue)

calculateSecurityScore(tokens) ==
    IF Len(tokens) = 0 THEN 0
    ELSE LET held == Present(tokens)
         IN  Round(SumSeq([i \in 1..Len(held) |-> RiskOrDefault(held[i])]),
                   Len(tokens))

\* a calculateRiskMetrics that reads portfolio.tokens without the `|| []`
calculateRiskMetricsThrowsOnMissing(portfolio) ==
    \/ "tokens" \notin DOMAIN portfolio
    \/ \E i \in 1..Len(tokensOf(portfolio)) : tokensOf(portfolio)[i] = Undefined

\* calculateRiskMetrics raises a TypeError when a reduce callback reads a
\* property of an element that is undefined (token.change24h at the latest)
calculateRiskMetricsThrows(portfolio) ==
    \E i \in 1..Len(tokensOf(portfolio)) : tokensOf(portfolio)[i] = Undefined

\* the metrics object created by evaluation number seq at clock reading now;
\* ref is the identity of the object
calculateRiskMetrics(portfolio, now, seq) ==
    LET tokens == tokensOf(portfolio)
        totalValue == totalValueOf(portfolio)
    IN  [ref |-> seq,
         portfolioRiskScore |-> calculatePortfolioRiskScore(tokens, totalValue),
         volatilityIndex |-> calculateVolatilityIndex(tokens),
         liquidityScore |-> calculateLiquidityScore(tokens),
         concentrationRisk |-> calculateConcentrationRisk(tokens, totalValue),
         securityScore |-> calculateSecurityScore(tokens),
         lastUpdated |-> now]

(***************************************************************************)
(* Alert Rule Engine                                                       *)
(***************************************************************************)
VolatilityThreshold == 20
ConcentrationThreshold == 70
ConcentrationHigh == 85
LiquidityThreshold == 30
LiquidityHigh == 15
SecurityThreshold == 40
SecurityCritical == 20

\* the prefix of the id of an alert of a type
IdPrefix(type) ==
    CASE type = "price_volatility" -> "volatility"
      [] type = "concentration_risk" -> "concentration"
      [] type = "liquidity_drop" -> "liquidity"
      [] type = "security_threat" -> "security"
      [] type = "market_crash" -> "market-crash"

\* An alert object.  ref is the identity of the object (evaluation number and
\* rule), id the string `${prefix}-${Date.now()}` as the pair of its parts.
\* title, message and recommendation are fixed texts per type and are left out.
Alert(seq, now, type, sev, sym, cur, thr) ==
    [ref |-> <<seq, type>>, id |-> <<IdPrefix(type), now>>, type |-> type,
     severity |-> sev, timestamp |-> now, isRead |-> FALSE,
     tokenSymbol |-> sym, currentValue |-> cur, thresholdValue |-> thr]

\* a threshold that a move of exactly 20% already reaches
IsHighVolatilityInclusive(token) ==
    Abs(token.change24h) >= VolatilityThreshold * 100

IsHighVolatility(token) == Abs(token.change24h) > VolatilityThreshold * 100

\* tokens.reduce((max, t) => t.value > max.value ? t : max, tokens[0])
RECURSIVE TopToken(_, _)
TopToken(tokens, max) ==
    IF tokens = <<>> THEN max
    ELSE TopToken(Tail(tokens),
                  IF Head(tokens).value > max.value THEN Head(tokens) ELSE max)

\* price volatility: tokens.filter(...) and one alert if any token is left
volatilityRule(tokens, now, seq) ==
    LET highVolatilityTokens == SelectSeq(Present(tokens), IsHighVolatility)
    IN  IF Len(highVolatilityTokens) > 0
        THEN <<Alert(seq, now, "price_volatility",
                     IF Len(highVolatilityTokens) > 2 THEN "high" ELSE "medium",
                     highVolatilityTokens[1].symbol, NoValue, NoValue)>>
        ELSE <<>>

\* The concentration rule raises a TypeError when it fires and tokens[0] is
\* undefined: max.value is read of the initial value of the reduce, or
\* topToken.value of its result.
concentrationRuleThrows(tokens, metrics) ==
    /\ metrics.concentrationRisk > ConcentrationThreshold
    /\ (Len(tokens) = 0 \/ tokens[1] = Hole)

concentrationRule(tokens, totalValue, metrics, now, seq) ==
    IF metrics.concentrationRisk > ConcentrationThreshold
          /\ ~concentrationRuleThrows(tokens, metrics)
    THEN LET topToken == TopToken(Present(tokens), tokens[1])
         IN  <<Alert(seq, now, "concentration_risk",
                     IF metrics.concentrationRisk > ConcentrationHigh
                     THEN "high" ELSE "medium",
                     topToken.symbol,
                     <<topToken.value * 100, totalValue>>,
                     <<ConcentrationThreshold>>)>>
    ELSE <<>>

liquidityRule(metrics, now, seq) ==
    IF metrics.liquidityScore < LiquidityThreshold
    THEN <<Alert(seq, now, "liquidity_drop",
                 IF metrics.liquidityScore < LiquidityHigh
                 THEN "high" ELSE "medium",
                 None, <<metrics.liquidityScore>>, <<LiquidityThreshold>>)>>
    ELSE <<>>

\* a security rule that an exact 40 already triggers and an exact 20 makes
\* critical
securityRuleInclusive(metrics, now, seq) ==
    IF metrics.securityScore <= SecurityThreshold
    THEN <<Alert(seq, now, "security_threat",
                 IF metrics.securityScore <= SecurityCritical
                 THEN "critical" ELSE "high",
                 None, <<metrics.securityScore>>, <<SecurityThreshold>>)>>
    ELSE <<>>

securityRule(metrics, now, seq) ==
    IF metrics.securityScore < SecurityThreshold
    THEN <<Alert(seq, now, "security_threat",
                 IF metrics.securityScore < SecurityCritical
                 THEN "critical" ELSE "high",
                 None, <<metrics.securityScore>>, <<SecurityThreshold>>)>>
    ELSE <<>>

\* crash is the outcome of Math.random() < 0.05
marketCrashRule(crash, now, seq) ==
    IF crash
    THEN <<Alert(seq, now, "market_crash", "critical", None, NoValue, NoValue)>>
    ELSE <<>>

\* generateRiskAlerts has no try/catch: what a rule raises leaves the function
\* and rejects the promise it returned
generateRiskAlertsRejects(portfolio, metrics) ==
    concentrationRuleThrows(tokensOf(portfolio), metrics)

\* the alerts pushed, in the order of the rules
generateRiskAlerts(portfolio, metrics, now, seq, crash) ==
    LET tokens == tokensOf(portfolio)
        totalValue == totalValueOf(portfolio)
    IN  volatilityRule(tokens, now, seq)
            \o concentrationRule(tokens, totalValue, metrics, now, seq)
            \o liquidityRule(metrics, now, seq)
            \o securityRule(metrics, now, seq)
            \o marketCrashRule(crash, now, seq)

(***************************************************************************)
(* State                                                                   *)
(***************************************************************************)
VARIABLES
    riskAlerts,          \* LiveRiskService.riskAlerts: the alert objects, in order
    riskMetrics,         \* LiveRiskService.riskMetrics: a metrics object or NullMetrics
    monitoringInterval,  \* LiveRiskService.monitoringInterval: a timer handle or NullTimer
    subscribers,         \* LiveRiskService.subscribers: [cb, reg], reg the subscribe call
    timers,              \* the runtime's active setInterval timers
    microtasks,          \* the runtime's queue of suspended assessPortfolioRisk calls
    now,                 \* the clock, Date.now()
    evalCount,           \* assessPortfolioRisk calls so far (numbers the objects created)
    published,           \* assessPortfolioRisk calls that have stored their snapshot
    unsubFns,            \* unsubFns[r]: the callback captured by the r-th unsubscribe function
    spent,               \* the subscribe calls whose unsubscribe function has been called
    heldAlerts,          \* the consumer's array: references to alert objects
    heldMetrics,         \* the consumer's reference to a metrics object (0: none)
    lastRound,           \* the callback invocations made by the latest operation
    lastSeen,            \* per callback, the evaluation of the snapshot it received last
    lastOp,              \* the latest operation and the case it met
    chainPortfolios,     \* PortfolioService: what getMultiChainPortfolio returned
    aggregated,          \* PortfolioService: what getAggregatedPortfolio returned
    item,                \* PortfolioService: a balance item received from the data API
    itemScore,           \* PortfolioService: what calculateRiskScore returned for it
    diversificationRisk, \* RiskAnalysisService: what calculateDiversificationRisk returned
    wallet,              \* useAccount(): the wallet's isConnected and address
    hook                 \* useLiveRisk: its phase, its last render and its state

vars ==
    <<riskAlerts, riskMetrics, monitoringInterval, subscribers, timers,
      microtasks, now, evalCount, published, unsubFns, spent, heldAlerts,
      heldMetrics, lastRound, lastSeen, lastOp, chainPortfolios, aggregated,
      item, itemScore, diversificationRisk, wallet, hook>>

\* the state outside LiveRiskService and its callers
outside ==
    <<chainPortfolios, aggregated, item, itemScore, diversificationRisk, wallet,
      hook>>

\* the fields of the service object
service == <<riskAlerts, riskMetrics, monitoringInterval, subscribers>>

NullTimer == 0

NullMetrics == [ref |-> 0]

\* intervalMs arguments, in clock units
Intervals == {1, 2}

\* alert ids a caller can pass to markAlertAsRead
AlertIds == {<<IdPrefix(t), k>> : t \in AlertTypes, k \in 0..MaxTime}

\* an object the consumer created itself
ForeignRef == <<0, "market_crash">>

Range(s) == {s[i] : i \in 1..Len(s)}

Refs(alerts) == [i \in 1..Len(alerts) |-> alerts[i].ref]

Op(name, case) == [op |-> name, pre |-> case]

\* an operation that invokes no callback
NoRound == [cause |-> "none", calls |-> <<>>]

\* the service, its runtime and its callers after construction
InitService ==
    /\ riskAlerts = <<>>
    /\ riskMetrics = NullMetrics
    /\ monitoringInterval = NullTimer
    /\ subscribers = <<>>
    /\ timers = {}
    /\ microtasks = <<>>
    /\ now = 0
    /\ evalCount = 0
    /\ published = 0
    /\ unsubFns = <<>>
    /\ spent = {}
    /\ heldAlerts = <<>>
    /\ heldMetrics = 0
    /\ lastRound = NoRound
    /\ lastSeen = [c \in Callbacks |-> 0]
    /\ lastOp = Op("new", "none")

\* no portfolio fetched yet
NoPortfolio == [chain |-> "none"]

\* what useAccount() returns: an address is there whenever isConnected is
\* true, and also while a known wallet is reconnecting
Disconnected == [isConnected |-> FALSE, address |-> ""]

Reconnecting == [isConnected |-> FALSE, address |-> "0xa"]

Connected == [isConnected |-> TRUE, address |-> "0xa"]

Wallets == {Disconnected, Reconnecting, Connected}

\* the hook before its component is mounted: useState(false), and the
\* isConnected and address its latest render has read (none yet)
NewHook ==
    [phase |-> "new", isConnected |-> FALSE, address |-> "",
     isMonitoring |-> FALSE, pending |-> FALSE]

\* no balance item received yet, no score computed yet
NoItem == [contract_address |-> ""]

NoScore == -1

\* A number that need not be an integer is the fraction num / den, den > 0.
Fraction(num, den) == [num |-> num, den |-> den]

\* diversification risk not computed yet
NoRisk == Fraction(-1, 1)

Init ==
    /\ InitService
    /\ chainPortfolios = <<>>
    /\ aggregated = NoPortfolio
    /\ item = NoItem
    /\ itemScore = NoScore
    /\ diversificationRisk = NoRisk
    /\ wallet = Disconnected
    /\ hook = NewHook

(***************************************************************************)
(* Live Monitor Loop                                                       *)
(***************************************************************************)
\* clearInterval(handle)
clearInterval(ts, handle) == {t \in ts : t.id # handle}

\* stopMonitoring that drops the handle without clearInterval
stopMonitoringLeak(ts, handle) == ts

\* stopMonitoring: the timers that stay active
stopMonitoring(ts, handle) ==
    IF handle # NullTimer THEN clearInterval(ts, handle) ELSE ts

\* setInterval(() => assessPortfolioRisk(portfolio), intervalMs): the timer,
\* with the clock reading it was set at and the number of times it has fired
setInterval(id, portfolio, intervalMs) ==
    [id |-> id, portfolio |-> portfolio, intervalMs |-> intervalMs,
     due |-> now + intervalMs, set |-> now, fired |-> 0]

\* the runtime re-arms a timer that has fired
rearm(t) == [t EXCEPT !.due = now + t.intervalMs, !.fired = t.fired + 1]

\* Run to completion: the code that calls the service runs in a job of its
\* own, or goes on synchronously after startMonitoring has suspended an
\* evaluation; it never runs between a timer callback and the microtask that
\* callback has queued.
CallerRuns ==
    \A i \in 1..Len(microtasks) : microtasks[i].origin = "startMonitoring"

\* assessPortfolioRisk up to its await: the suspended call
assessPortfolioRisk(portfolio, crash, origin) ==
    LET seq == evalCount + 1
        metrics == calculateRiskMetrics(portfolio, now, seq)
        rejected == generateRiskAlertsRejects(portfolio, metrics)
        alerts == IF rejected THEN <<>>
                  ELSE generateRiskAlerts(portfolio, metrics, now, seq, crash)
    IN  [metrics |-> metrics, alerts |-> alerts, origin |-> origin,
         rejected |-> rejected]

\* a runtime that resumes the call suspended last first
enqueueFirst(queue, call) == <<call>> \o queue

\* the runtime queues a suspended call behind the ones already waiting
enqueue(queue, call) == Append(queue, call)

\* A call of assessPortfolioRisk: when calculateRiskMetrics raises, the catch
\* block runs at once and the call never suspends; otherwise the call is
\* suspended at its await.
callAssessPortfolioRisk(queue, portfolio, crash, origin) ==
    IF calculateRiskMetricsThrows(portfolio) THEN queue
    ELSE enqueue(queue, assessPortfolioRisk(portfolio, crash, origin))

\* a loop that walks the subscribers from the last to the first
notifySubscribersBackwards(subs, alerts, metrics) ==
    [i \in 1..Len(subs) |->
        [cb |-> subs[Len(subs) + 1 - i].cb, reg |-> subs[Len(subs) + 1 - i].reg,
         alerts |-> alerts, metrics |-> metrics]]

\* subscribers.forEach(callback => callback([...riskAlerts], riskMetrics)):
\* the invocations made, in order
notifySubscribers(subs, alerts, metrics) ==
    [i \in 1..Len(subs) |->
        [cb |-> subs[i].cb, reg |-> subs[i].reg, alerts |-> alerts,
         metrics |-> metrics]]

\* a notification round and what the callbacks' owner keeps of it
Notify(cause, alerts, metrics) ==
    LET calls == notifySubscribers(subscribers, alerts, metrics)
    IN  /\ lastRound' = [cause |-> cause, calls |-> calls]
        /\ lastSeen' = [c \in Callbacks |->
                           IF \E i \in 1..Len(calls) : calls[i].cb = c
                           THEN metrics.ref ELSE lastSeen[c]]
        /\ IF calls # <<>>
           THEN /\ heldAlerts' = Refs(alerts)
                /\ heldMetrics' = metrics.ref
           ELSE UNCHANGED <<heldAlerts, heldMetrics>>

\* startMonitoring without the initial risk assessment
StartMonitoringNoInitial(portfolio, intervalMs, crash) ==
    /\ CallerRuns
    /\ evalCount < MaxEvals
    /\ timers' = stopMonitoring(timers, monitoringInterval)
                    \cup {setInterval(evalCount + 1, portfolio, intervalMs)}
    /\ monitoringInterval' = evalCount + 1
    /\ evalCount' = evalCount + 1
    /\ lastOp' = Op("startMonitoring",
                    IF monitoringInterval # NullTimer THEN "monitoring" ELSE "idle")
    /\ UNCHANGED <<riskAlerts, riskMetrics, subscribers, microtasks, now,
                   published, unsubFns, spent, heldAlerts, heldMetrics, lastSeen>>
    /\ lastRound' = NoRound
    /\ UNCHANGED outside

StartMonitoring(portfolio, intervalMs, crash) ==
    /\ CallerRuns
    /\ evalCount < MaxEvals
    /\ timers' = stopMonitoring(timers, monitoringInterval)
                    \cup {setInterval(evalCount + 1, portfolio, intervalMs)}
    /\ microtasks' = callAssessPortfolioRisk(microtasks, portfolio, crash,
                                             "startMonitoring")
    /\ monitoringInterval' = evalCount + 1
    /\ evalCount' = evalCount + 1
    /\ lastOp' = Op("startMonitoring",
                    IF monitoringInterval # NullTimer THEN "monitoring" ELSE "idle")
    /\ UNCHANGED <<riskAlerts, riskMetrics, subscribers, now, published,
                   unsubFns, spent, heldAlerts, heldMetrics, lastSeen>>
    /\ lastRound' = NoRound
    /\ UNCHANGED outside

\* stopMonitoring that reports the snapshot to the subscribers
StopMonitoringNotify ==
    /\ CallerRuns
    /\ timers' = stopMonitoring(timers, monitoringInterval)
    /\ monitoringInterval' = NullTimer
    /\ lastOp' = Op("stopMonitoring",
                    IF monitoringInterval # NullTimer THEN "monitoring" ELSE "idle")
    /\ UNCHANGED <<riskAlerts, riskMetrics, subscribers, microtasks, now,
                   evalCount, published, unsubFns, spent>>
    /\ Notify("stopMonitoring", riskAlerts, riskMetrics)
    /\ UNCHANGED outside

\* stopMonitoring that also forgets the snapshot
StopMonitoringReset ==
    /\ CallerRuns
    /\ timers' = stopMonitoring(timers, monitoringInterval)
    /\ monitoringInterval' = NullTimer
    /\ riskMetrics' = NullMetrics
    /\ riskAlerts' = <<>>
    /\ lastOp' = Op("stopMonitoring",
                    IF monitoringInterval # NullTimer THEN "monitoring" ELSE "idle")
    /\ UNCHANGED <<subscribers, microtasks, now, evalCount, published,
                   unsubFns, spent, heldAlerts, heldMetrics, lastSeen>>
    /\ lastRound' = NoRound
    /\ UNCHANGED outside

StopMonitoring ==
    /\ CallerRuns
    /\ timers' = stopMonitoring(timers, monitoringInterval)
    /\ monitoringInterval' = NullTimer
    /\ lastOp' = Op("stopMonitoring",
                    IF monitoringInterval # NullTimer THEN "monitoring" ELSE "idle")
    /\ UNCHANGED <<riskAlerts, riskMetrics, subscribers, microtasks, now,
                   evalCount, published, unsubFns, spent, heldAlerts,
                   heldMetrics, lastSeen>>
    /\ lastRound' = NoRound
    /\ UNCHANGED outside

\* a timer fires: a macrotask, run when no microtask is waiting
Tick(t, crash) ==
    /\ t \in timers
    /\ t.due <= now
    /\ microtasks = <<>>
    /\ evalCount < MaxEvals
    /\ microtasks' = callAssessPortfolioRisk(microtasks, t.portfolio, crash,
                                             "setInterval")
    /\ timers' = (timers \ {t}) \cup {rearm(t)}
    /\ evalCount' = evalCount + 1
    /\ lastOp' = Op("tick", IF t.id = monitoringInterval THEN "current" ELSE "orphan")
    /\ UNCHANGED <<riskAlerts, riskMetrics, monitoringInterval, subscribers,
                   now, published, unsubFns, spent, heldAlerts, heldMetrics, lastSeen>>
    /\ lastRound' = NoRound
    /\ UNCHANGED outside

\* the clock advances; a due timer fires before it advances further
Elapse ==
    /\ now < MaxTime
    /\ \A t \in timers : t.due > now
    /\ now' = now + 1
    /\ lastOp' = Op("elapse", "none")
    /\ UNCHANGED <<riskAlerts, riskMetrics, monitoringInterval, subscribers,
                   timers, microtasks, evalCount, published, unsubFns, spent,
                   heldAlerts, heldMetrics, lastSeen>>
    /\ lastRound' = NoRound
    /\ UNCHANGED outside

\* an assignment that carries the read marks of the old alerts of the same
\* type over to the new ones
storeAlertsKeepRead(old, new) ==
    [i \in 1..Len(new) |->
        IF \E j \in 1..Len(old) : old[j].type = new[i].type /\ old[j].isRead
        THEN [new[i] EXCEPT !.isRead = TRUE] ELSE new[i]]

\* this.riskAlerts = alerts
storeAlerts(old, new) == new

\* a continuation that, when the awaited promise was rejected, drops the
\* snapshot and tells the subscribers
CompleteEvaluationDropsSnapshot ==
    /\ microtasks # <<>>
    /\ LET call == Head(microtasks)
       IN  /\ riskMetrics' = IF call.rejected THEN NullMetrics ELSE call.metrics
           /\ riskAlerts' = IF call.rejected THEN <<>>
                             ELSE storeAlerts(riskAlerts, call.alerts)
           /\ Notify(call.origin, riskAlerts', riskMetrics')
           /\ published' = IF call.rejected THEN published ELSE published + 1
           /\ lastOp' = Op("assessPortfolioRisk",
                           IF call.rejected THEN "caught" ELSE "published")
    /\ microtasks' = Tail(microtasks)
    /\ UNCHANGED <<monitoringInterval, subscribers, timers, now, evalCount,
                   unsubFns, spent>>
    /\ UNCHANGED outside

\* assessPortfolioRisk after its await: store the snapshot and notify, or,
\* when the awaited promise was rejected, catch the error and log it
CompleteEvaluation ==
    /\ microtasks # <<>>
    /\ LET call == Head(microtasks)
       IN  IF call.rejected
           THEN /\ lastOp' = Op("assessPortfolioRisk", "caught")
                /\ lastRound' = NoRound
                /\ UNCHANGED <<riskMetrics, riskAlerts, published, lastSeen,
                               heldAlerts, heldMetrics>>
           ELSE /\ riskMetrics' = call.metrics
                /\ riskAlerts' = storeAlerts(riskAlerts, call.alerts)
                /\ Notify(call.origin, riskAlerts', riskMetrics')
                /\ published' = published + 1
                /\ lastOp' = Op("assessPortfolioRisk",
                       IF \E i \in 1..Len(riskAlerts) :
                             /\ riskAlerts[i].isRead
                             /\ \E j \in 1..Len(call.alerts) :
                                   call.alerts[j].type = riskAlerts[i].type
                       THEN "published over read" ELSE "published")
    /\ microtasks' = Tail(microtasks)
    /\ UNCHANGED <<monitoringInterval, subscribers, timers, now, evalCount,
                   unsubFns, spent>>
    /\ UNCHANGED outside

(***************************************************************************)
(* Subscriptions                                                           *)
(***************************************************************************)
subscribe(subs, callback, reg) == Append(subs, [cb |-> callback, reg |-> reg])

\* subscribers.indexOf(callback): the first position, 0 when there is none
indexOf(subs, callback) ==
    IF \E i \in 1..Len(subs) : subs[i].cb = callback
    THEN CHOOSE i \in 1..Len(subs) :
            /\ subs[i].cb = callback
            /\ \A j \in 1..(i - 1) : subs[j].cb # callback
    ELSE 0

\* subscribers.splice(index, 1)
splice(subs, index) ==
    [i \in 1..(Len(subs) - 1) |-> IF i < index THEN subs[i] ELSE subs[i + 1]]

\* the function returned by subscribe(callback)
unsubscribe(subs, callback) ==
    LET index == indexOf(subs, callback)
    IN  IF index > 0 THEN splice(subs, index) ELSE subs

Subscribe(callback) ==
    /\ CallerRuns
    /\ Len(unsubFns) < MaxRegs
    /\ subscribers' = subscribe(subscribers, callback, Len(unsubFns) + 1)
    /\ unsubFns' = Append(unsubFns, callback)
    /\ lastOp' = Op("subscribe", "none")
    /\ UNCHANGED <<riskAlerts, riskMetrics, monitoringInterval, timers,
                   microtasks, now, evalCount, published, spent, heldAlerts,
                   heldMetrics, lastSeen>>
    /\ lastRound' = NoRound
    /\ UNCHANGED outside

\* the consumer calls the unsubscribe function it got from subscribe call r
Unsubscribe(r) ==
    /\ CallerRuns
    /\ r \in 1..Len(unsubFns)
    /\ subscribers' = unsubscribe(subscribers, unsubFns[r])
    /\ spent' = spent \cup {r}
    /\ lastOp' = Op("unsubscribe", IF r \in spent THEN "again" ELSE "first")
    /\ UNCHANGED <<riskAlerts, riskMetrics, monitoringInterval, timers,
                   microtasks, now, evalCount, published, unsubFns, heldAlerts,
                   heldMetrics, lastSeen>>
    /\ lastRound' = NoRound
    /\ UNCHANGED outside

(***************************************************************************)
(* Read marks                                                              *)
(***************************************************************************)
\* riskAlerts.find(a => a.id === alertId): the first position, 0 when none
find(alerts, alertId) ==
    IF \E i \in 1..Len(alerts) : alerts[i].id = alertId
    THEN CHOOSE i \in 1..Len(alerts) :
            /\ alerts[i].id = alertId
            /\ \A j \in 1..(i - 1) : alerts[j].id # alertId
    ELSE 0

\* a read mark that also takes the alert off the list
markReadAndDismiss(alerts, index) ==
    [i \in 1..(Len(alerts) - 1) |-> IF i < index THEN alerts[i] ELSE alerts[i + 1]]

\* alert.isRead = true
markRead(alerts, index) == [alerts EXCEPT ![index].isRead = TRUE]

\* markAlertAsRead that notifies only when the mark changes something
MarkAlertAsReadOnce(alertId) ==
    LET index == find(riskAlerts, alertId)
    IN  /\ CallerRuns
        /\ lastOp' = Op("markAlertAsRead",
                        IF index = 0 THEN "absent"
                        ELSE IF riskAlerts[index].isRead THEN "read" ELSE "unread")
        /\ IF index > 0 /\ ~riskAlerts[index].isRead
           THEN /\ riskAlerts' = markRead(riskAlerts, index)
                /\ Notify("markAlertAsRead", riskAlerts', riskMetrics)
           ELSE /\ lastRound' = NoRound
                /\ UNCHANGED <<riskAlerts, heldAlerts, heldMetrics, lastSeen>>
        /\ UNCHANGED <<riskMetrics, monitoringInterval, subscribers, timers,
                       microtasks, now, evalCount, published, unsubFns, spent>>
        /\ UNCHANGED outside

MarkAlertAsRead(alertId) ==
    LET index == find(riskAlerts, alertId)
    IN  /\ CallerRuns
        /\ lastOp' = Op("markAlertAsRead",
                        IF index = 0 THEN "absent"
                        ELSE IF riskAlerts[index].isRead THEN "read" ELSE "unread")
        /\ IF index > 0
           THEN /\ riskAlerts' = markRead(riskAlerts, index)
                /\ Notify("markAlertAsRead", riskAlerts', riskMetrics)
           ELSE /\ lastRound' = NoRound
                /\ UNCHANGED <<riskAlerts, heldAlerts, heldMetrics, lastSeen>>
        /\ UNCHANGED <<riskMetrics, monitoringInterval, subscribers, timers,
                       microtasks, now, evalCount, published, unsubFns, spent>>
        /\ UNCHANGED outside

MarkAllAlertsAsRead ==
    /\ CallerRuns
    /\ riskAlerts' = [i \in 1..Len(riskAlerts) |->
                         [riskAlerts[i] EXCEPT !.isRead = TRUE]]
    /\ Notify("markAllAlertsAsRead", riskAlerts', riskMetrics)
    /\ lastOp' = Op("markAllAlertsAsRead",
                    IF \E i \in 1..Len(riskAlerts) : ~riskAlerts[i].isRead
                    THEN "unread" ELSE "read")
    /\ UNCHANGED <<riskMetrics, monitoringInterval, subscribers, timers,
                   microtasks, now, evalCount, published, unsubFns, spent>>
    /\ UNCHANGED outside

(***************************************************************************)
(* Subscribers that act while they are notified                            *)
(***************************************************************************)
\* What a callback does when it is invoked: it returns, it throws, it calls
\* the unsubscribe function of subscribe call fn, or it subscribes callback cb.
Returns == [kind |-> "return"]

Throws == [kind |-> "throw"]

CallsUnsubscribe(fn) == [kind |-> "unsubscribe", fn |-> fn]

CallsSubscribe(cb) == [kind |-> "subscribe", cb |-> cb]

Reactions ==
    {Returns, Throws} \cup {CallsUnsubscribe(fn) : fn \in 1..MaxRegs}
        \cup {CallsSubscribe(cb) : cb \in Callbacks}

\* what each callback does in one round; an unsubscribe function that is
\* called has been returned by an earlier subscribe call
Behaviours ==
    {react \in [Callbacks -> Reactions] :
        \A c \in Callbacks :
            react[c].kind = "unsubscribe" => react[c].fn \in 1..Len(unsubFns)}

\* the service's list and the callers' unsubscribe functions during a round
startOfRound ==
    [subs |-> subscribers, unsubFns |-> unsubFns, spent |-> spent,
     calls |-> <<>>, thrown |-> FALSE]

\* the effect of one invocation on the list
invoke(round, did) ==
    IF did.kind = "unsubscribe"
    THEN [round EXCEPT !.subs = unsubscribe(@, round.unsubFns[did.fn]),
                       !.spent = @ \cup {did.fn}]
    ELSE IF did.kind = "subscribe"
    THEN [round EXCEPT !.subs = subscribe(@, did.cb, Len(round.unsubFns) + 1),
                       !.unsubFns = Append(@, did.cb)]
    ELSE IF did.kind = "throw"
    THEN [round EXCEPT !.thrown = TRUE]
    ELSE round

\* Array.prototype.forEach: the indices below the length the array had when
\* the loop began are visited in order, an index the array no longer has is
\* passed over, and an exception of a callback ends the loop
RECURSIVE forEach(_, _, _, _, _, _)
forEach(k, len, react, round, alerts, metrics) ==
    IF k > len \/ round.thrown THEN round
    ELSE IF k > Len(round.subs)
    THEN forEach(k + 1, len, react, round, alerts, metrics)
    ELSE LET sub == round.subs[k]
             did == react[sub.cb]
             call == [cb |-> sub.cb, reg |-> sub.reg, alerts |-> alerts,
                      metrics |-> metrics, did |-> did]
             after == invoke(round, did)
         IN  forEach(k + 1, len, react,
                     [after EXCEPT !.calls = Append(@, call)], alerts, metrics)

\* subscribers.forEach(callback => callback([...riskAlerts], riskMetrics))
\* with callbacks that act
notifyActingSubscribers(react, alerts, metrics) ==
    forEach(1, Len(subscribers), react, startOfRound, alerts, metrics)

\* a notification round with callbacks that act, and what it leaves
NotifyActing(cause, alerts, metrics, react) ==
    LET round == notifyActingSubscribers(react, alerts, metrics)
    IN  /\ Len(round.unsubFns) <= MaxRegs
        /\ subscribers' = round.subs
        /\ unsubFns' = round.unsubFns
        /\ spent' = round.spent
        /\ lastRound' = [cause |-> cause, calls |-> round.calls]
        /\ lastSeen' = [c \in Callbacks |->
                           IF \E i \in 1..Len(round.calls) : round.calls[i].cb = c
                           THEN metrics.ref ELSE lastSeen[c]]
        /\ IF round.calls # <<>>
           THEN /\ heldAlerts' = Refs(alerts)
                /\ heldMetrics' = metrics.ref
           ELSE UNCHANGED <<heldAlerts, heldMetrics>>

\* the case an operation met when its round ended
Ended(react, alerts, metrics, case) ==
    IF notifyActingSubscribers(react, alerts, metrics).thrown
    THEN "thrown" ELSE case

\* assessPortfolioRisk after its await: an exception of a callback is caught
\* by the catch block, after the snapshot has been stored
CompleteEvaluationActing(react) ==
    /\ microtasks # <<>>
    /\ react \in Behaviours
    /\ LET call == Head(microtasks)
       IN  IF call.rejected
           THEN /\ lastOp' = Op("assessPortfolioRisk", "caught")
                /\ lastRound' = NoRound
                /\ UNCHANGED <<riskMetrics, riskAlerts, published, lastSeen,
                               heldAlerts, heldMetrics, subscribers, unsubFns,
                               spent>>
           ELSE /\ riskMetrics' = call.metrics
                /\ riskAlerts' = storeAlerts(riskAlerts, call.alerts)
                /\ NotifyActing(call.origin, riskAlerts', riskMetrics', react)
                /\ published' = published + 1
                /\ lastOp' = Op("assessPortfolioRisk",
                                Ended(react, riskAlerts', riskMetrics', "published"))
    /\ microtasks' = Tail(microtasks)
    /\ UNCHANGED <<monitoringInterval, timers, now, evalCount>>
    /\ UNCHANGED outside

\* markAlertAsRead: an exception of a callback reaches the caller, after the
\* alert has been marked
MarkAlertAsReadActing(alertId, react) ==
    LET index == find(riskAlerts, alertId)
    IN  /\ CallerRuns
        /\ react \in Behaviours
        /\ IF index > 0
           THEN /\ riskAlerts' = markRead(riskAlerts, index)
                /\ NotifyActing("markAlertAsRead", riskAlerts', riskMetrics, react)
                /\ lastOp' = Op("markAlertAsRead",
                                Ended(react, riskAlerts', riskMetrics, "marked"))
           ELSE /\ lastRound' = NoRound
                /\ lastOp' = Op("markAlertAsRead", "absent")
                /\ UNCHANGED <<riskAlerts, heldAlerts, heldMetrics, lastSeen,
                               subscribers, unsubFns, spent>>
        /\ UNCHANGED <<riskMetrics, monitoringInterval, timers, microtasks,
                       now, evalCount, published>>
        /\ UNCHANGED outside

\* markAllAlertsAsRead: an exception of a callback reaches the caller, after
\* the alerts have been marked
MarkAllAlertsAsReadActing(react) ==
    /\ CallerRuns
    /\ react \in Behaviours
    /\ riskAlerts' = [i \in 1..Len(riskAlerts) |->
                         [riskAlerts[i] EXCEPT !.isRead = TRUE]]
    /\ NotifyActing("markAllAlertsAsRead", riskAlerts', riskMetrics, react)
    /\ lastOp' = Op("markAllAlertsAsRead",
                    Ended(react, riskAlerts', riskMetrics, "marked"))
    /\ UNCHANGED <<riskMetrics, monitoringInterval, timers, microtasks, now,
                   evalCount, published>>
    /\ UNCHANGED outside

(***************************************************************************)
(* Consumers: reads, and writes to what they were handed                   *)
(***************************************************************************)
\* what getRiskAlerts() returns: [...this.riskAlerts], a new array of the
\* same objects
getRiskAlerts == [i \in 1..Len(riskAlerts) |-> riskAlerts[i]]

\* what getRiskMetrics() returns: this.riskMetrics itself
getRiskMetrics == riskMetrics

\* the consumer calls getRiskAlerts() and keeps the array
GetRiskAlerts ==
    /\ CallerRuns
    /\ heldAlerts' = Refs(getRiskAlerts)
    /\ lastOp' = Op("getRiskAlerts", "none")
    /\ UNCHANGED <<riskAlerts, riskMetrics, monitoringInterval, subscribers,
                   timers, microtasks, now, evalCount, published, unsubFns,
                   spent, heldMetrics, lastSeen>>
    /\ lastRound' = NoRound
    /\ UNCHANGED outside

\* the consumer calls getRiskMetrics() and keeps the object
GetRiskMetrics ==
    /\ CallerRuns
    /\ heldMetrics' = getRiskMetrics.ref
    /\ lastOp' = Op("getRiskMetrics", "none")
    /\ UNCHANGED <<riskAlerts, riskMetrics, monitoringInterval, subscribers,
                   timers, microtasks, now, evalCount, published, unsubFns,
                   spent, heldAlerts, lastSeen>>
    /\ lastRound' = NoRound
    /\ UNCHANGED outside

\* a write to a field of an object changes every array that holds the object
WriteAlert(alerts, ref, field, value) ==
    [i \in 1..Len(alerts) |->
        IF alerts[i].ref = ref THEN [alerts[i] EXCEPT ![field] = value]
        ELSE alerts[i]]

\* the consumer assigns alert.isRead or alert.severity on an object it holds
ConsumerWritesAlert(ref, field, value) ==
    /\ CallerRuns
    /\ ref \in Range(heldAlerts)
    /\ riskAlerts' = WriteAlert(riskAlerts, ref, field, value)
    /\ lastOp' = Op("consumer", "alert")
    /\ UNCHANGED <<riskMetrics, monitoringInterval, subscribers, timers,
                   microtasks, now, evalCount, published, unsubFns, spent,
                   heldAlerts, heldMetrics, lastSeen>>
    /\ lastRound' = NoRound
    /\ UNCHANGED outside

\* the consumer shifts an element off, or pushes an object onto, its array
ConsumerWritesArray ==
    /\ CallerRuns
    /\ \/ heldAlerts # <<>> /\ heldAlerts' = Tail(heldAlerts)
       \/ ForeignRef \notin Range(heldAlerts)
            /\ heldAlerts' = Append(heldAlerts, ForeignRef)
    /\ lastOp' = Op("consumer", "array")
    /\ UNCHANGED <<riskAlerts, riskMetrics, monitoringInterval, subscribers,
                   timers, microtasks, now, evalCount, published, unsubFns,
                   spent, heldMetrics, lastSeen>>
    /\ lastRound' = NoRound
    /\ UNCHANGED outside

\* the consumer assigns metrics.portfolioRiskScore on the object it holds
ConsumerWritesMetrics ==
    /\ CallerRuns
    /\ heldMetrics # NullMetrics.ref
    /\ riskMetrics' = IF riskMetrics.ref = heldMetrics
                      THEN [riskMetrics EXCEPT !.portfolioRiskScore = -1]
                      ELSE riskMetrics
    /\ lastOp' = Op("consumer", "metrics")
    /\ UNCHANGED <<riskAlerts, monitoringInterval, subscribers, timers,
                   microtasks, now, evalCount, published, unsubFns, spent,
                   heldAlerts, heldMetrics, lastSeen>>
    /\ lastRound' = NoRound
    /\ UNCHANGED outside

(***************************************************************************)
(* Portfolio Service: multi-chain aggregation                              *)
(***************************************************************************)
MaxChains == 2

\* Strings that are concatenated are sequences of characters.  A contract
\* address is a hex string or, for a native token, the empty string.
ContractAddress == <<"0", "x", "a">>

NativeAddress == <<>>

ChainToken(addr, sym, bal, val) ==
    [contractAddress |-> addr, symbol |-> sym, balance |-> bal, value |-> val,
     chain |-> "Ethereum"]

ChainTokens ==
    {ChainToken(ContractAddress, <<"E">>, 1, 10),
     ChainToken(ContractAddress, <<"E">>, 2, 25),
     ChainToken(NativeAddress, <<"E">>, 1, 10),
     ChainToken(NativeAddress, <<"0", "x", "a", "-", "E">>, 2, 25)}

\* what getPortfolioData returns for a chain: totalValue is the sum of the
\* token values
ChainPortfolio(tokens) ==
    [chain |-> "1", tokens |-> tokens,
     totalValue |-> SumSeq([i \in 1..Len(tokens) |-> tokens[i].value])]

ChainPortfolios ==
    {ChainPortfolio(<<>>)} \cup {ChainPortfolio(<<a>>) : a \in ChainTokens}
        \cup {ChainPortfolio(<<a, b>>) : a \in ChainTokens, b \in ChainTokens}

\* the portfolios fetched for up to MaxChains supported chains
ChainInputs ==
    UNION {[1..n -> ChainPortfolios] : n \in 0..MaxChains}

\* getMultiChainPortfolio keeps the portfolios that hold a token
getMultiChainPortfolio(fetched) ==
    LET HoldsToken(portfolio) == Len(portfolio.tokens) > 0
    IN  SelectSeq(fetched, HoldsToken)

\* `${token.contractAddress}-${token.symbol}`
tokenKey(token) == token.contractAddress \o <<"-">> \o token.symbol

\* a merge that adds the balance and forgets the value
mergeTokenBalanceOnly(tokenMap, token) ==
    IF \E i \in 1..Len(tokenMap) : tokenKey(tokenMap[i]) = tokenKey(token)
    THEN [i \in 1..Len(tokenMap) |->
             IF tokenKey(tokenMap[i]) = tokenKey(token)
             THEN [tokenMap[i] EXCEPT !.balance = @ + token.balance,
                                      !.chain = "Multi-Chain"]
             ELSE tokenMap[i]]
    ELSE Append(tokenMap, token)

\* tokenMap is the Map in insertion order: an entry with the key of the
\* token absorbs it, otherwise a copy of the token is added
mergeToken(tokenMap, token) ==
    IF \E i \in 1..Len(tokenMap) : tokenKey(tokenMap[i]) = tokenKey(token)
    THEN [i \in 1..Len(tokenMap) |->
             IF tokenKey(tokenMap[i]) = tokenKey(token)
             THEN [tokenMap[i] EXCEPT !.balance = @ + token.balance,
                                      !.value = @ + token.value,
                                      !.chain = "Multi-Chain"]
             ELSE tokenMap[i]]
    ELSE Append(tokenMap, token)

\* portfolio.tokens.forEach(token => ...) on the map so far
RECURSIVE mergeTokens(_, _)
mergeTokens(tokenMap, tokens) ==
    IF tokens = <<>> THEN tokenMap
    ELSE mergeTokens(mergeToken(tokenMap, Head(tokens)), Tail(tokens))

\* portfolios.forEach(portfolio => ...) on the map so far
RECURSIVE mergePortfolios(_, _)
mergePortfolios(tokenMap, portfolios) ==
    IF portfolios = <<>> THEN tokenMap
    ELSE mergePortfolios(mergeTokens(tokenMap, Head(portfolios).tokens),
                         Tail(portfolios))

getAggregatedPortfolio(portfolios) ==
    IF Len(portfolios) = 0
    THEN [chain |-> "multi-chain", tokens |-> <<>>, totalValue |-> 0]
    ELSE [chain |-> "multi-chain",
          tokens |-> mergePortfolios(<<>>, portfolios),
          totalValue |-> SumSeq([i \in 1..Len(portfolios) |->
                                    portfolios[i].totalValue])]

\* the state of LiveRiskService, its runtime and its callers
monitor ==
    <<riskAlerts, riskMetrics, monitoringInterval, subscribers, timers,
      microtasks, now, evalCount, published, unsubFns, spent, heldAlerts,
      heldMetrics, lastRound, lastSeen, lastOp>>

GetAggregatedPortfolio ==
    /\ aggregated = NoPortfolio
    /\ aggregated' = getAggregatedPortfolio(getMultiChainPortfolio(chainPortfolios))
    /\ UNCHANGED <<monitor, chainPortfolios, item, itemScore, diversificationRisk,
                   wallet, hook>>

(***************************************************************************)
(* Portfolio Service: per-token risk score                                 *)
(***************************************************************************)
\* Date.now(), in days
Today == 400

ZeroAddress == "0x0000000000000000000000000000000000000000"

\* contract_created_at: absent, a string that is no date, or a date (its day)
NoDate == [kind |-> "missing"]

InvalidDate == [kind |-> "invalid"]

DateAt(day) == [kind |-> "date", day |-> day]

\* A balance item of the data API.  An optional number is <<>> when absent.
Items ==
    [quote_rate_24h : {NoValue, <<0>>, <<1>>},
     contract_address : {"", ZeroAddress, "0xa"},
     quote : {NoValue, <<0>>, <<1000>>, <<1001>>},
     contract_created_at :
         {NoDate, InvalidDate} \cup
             {DateAt(Today - age) : age \in {-1, 0, 90, 91, 365, 366}}]

\* the age tiers with bounds that already count at exactly 365 and 90 days
ageBonusInclusive(created) ==
    IF created.kind # "date" THEN 0
    ELSE LET ageInDays == Today - created.day
         IN  IF ageInDays >= 365 THEN 15
             ELSE IF ageInDays >= 90 THEN 10 ELSE 0

\* if (token.contract_created_at) { ... }: new Date of a string that is no
\* date has time NaN, and no comparison with NaN holds
ageBonus(created) ==
    IF created.kind # "date" THEN 0
    ELSE LET ageInDays == Today - created.day
         IN  IF ageInDays > 365 THEN 15
             ELSE IF ageInDays > 90 THEN 10 ELSE 0

calculateRiskScore(token) ==
    LET liquidity ==
            IF token.quote_rate_24h # NoValue /\ token.quote_rate_24h[1] > 0
            THEN 20 ELSE 0
        contract ==
            IF token.contract_address # "" /\ token.contract_address # ZeroAddress
            THEN 15 ELSE 0
        marketCap ==
            IF token.quote # NoValue /\ token.quote[1] > 1000 THEN 10 ELSE 0
        score == 50 + liquidity + contract + marketCap
                    + ageBonus(token.contract_created_at)
    IN  Min(100, Max(0, score))

CalculateRiskScore ==
    /\ itemScore = NoScore
    /\ itemScore' = calculateRiskScore(item)
    /\ UNCHANGED <<monitor, chainPortfolios, aggregated, item, diversificationRisk,
                   wallet, hook>>

(***************************************************************************)
(* Risk Analysis Service: diversification risk                             *)
(***************************************************************************)
\* the helper with the zero-total convention of the concentration metric
calculateDiversificationRiskZero(tokens) ==
    LET held == Present(tokens)
        totalValue == SumSeq([i \in 1..Len(held) |-> held[i].value])
        squares == SumSeq([i \in 1..Len(held) |-> held[i].value * held[i].value])
    IN  IF totalValue = 0 THEN Fraction(0, 1)
        ELSE IF Len(tokens) <= 1 THEN Fraction(100, 1)
        ELSE IF squares > totalValue * totalValue THEN Fraction(100, 1)
        ELSE Fraction(100 * squares, totalValue * totalValue)

\* returns hhi * 100 unrounded, capped at 100; 100 for at most one token and
\* for a total of 0
calculateDiversificationRisk(tokens) ==
    LET held == Present(tokens)
        totalValue == SumSeq([i \in 1..Len(held) |-> held[i].value])
        squares == SumSeq([i \in 1..Len(held) |-> held[i].value * held[i].value])
    IN  IF Len(tokens) <= 1 THEN Fraction(100, 1)
        ELSE IF totalValue = 0 THEN Fraction(100, 1)
        ELSE IF squares > totalValue * totalValue THEN Fraction(100, 1)
        ELSE Fraction(100 * squares, totalValue * totalValue)

\* the analysis service is handed the token list of the monitored portfolio
CalculateDiversificationRisk ==
    /\ diversificationRisk = NoRisk
    /\ \E t \in timers :
          diversificationRisk' = calculateDiversificationRisk(t.portfolio.tokens)
    /\ UNCHANGED <<monitor, chainPortfolios, aggregated, item, itemScore, wallet,
                   hook>>

(***************************************************************************)
(* useLiveRisk: the hook that owns a LiveRiskService                       *)
(***************************************************************************)
\* the state outside the service that the hook does not touch
beside == <<chainPortfolios, aggregated, item, itemScore, diversificationRisk>>

\* the callback the hook subscribes
HookCallback == "cbA"

\* the wallet connects, disconnects or reconnects; a mounted hook is
\* rendered again
WalletChanges(w) ==
    /\ CallerRuns
    /\ w # wallet
    /\ wallet' = w
    /\ hook' = [hook EXCEPT !.pending = hook.phase = "mounted"]
    /\ lastOp' = Op("useAccount", IF w.isConnected THEN "connected" ELSE "disconnected")
    /\ lastRound' = NoRound
    /\ UNCHANGED <<riskAlerts, riskMetrics, monitoringInterval, subscribers,
                   timers, microtasks, now, evalCount, published, unsubFns,
                   spent, heldAlerts, heldMetrics, lastSeen>>
    /\ UNCHANGED beside

\* the first render and its effects: subscribe; register the cleanup; stop
\* when the wallet is not connected
Mount ==
    /\ CallerRuns
    /\ hook.phase = "new"
    /\ Len(unsubFns) < MaxRegs
    /\ subscribers' = subscribe(subscribers, HookCallback, Len(unsubFns) + 1)
    /\ unsubFns' = Append(unsubFns, HookCallback)
    /\ timers' = IF wallet.isConnected THEN timers
                 ELSE stopMonitoring(timers, monitoringInterval)
    /\ monitoringInterval' = IF wallet.isConnected THEN monitoringInterval
                             ELSE NullTimer
    /\ hook' = [phase |-> "mounted", isConnected |-> wallet.isConnected,
                address |-> wallet.address, isMonitoring |-> FALSE,
                pending |-> FALSE]
    /\ lastOp' = Op("useLiveRisk.mount",
                    IF wallet.isConnected THEN "connected" ELSE "disconnected")
    /\ lastRound' = NoRound
    /\ UNCHANGED <<riskAlerts, riskMetrics, microtasks, now, evalCount,
                   published, spent, heldAlerts, heldMetrics, lastSeen, wallet>>
    /\ UNCHANGED beside

\* a render whose effect leaves the service monitoring after a disconnect
RenderKeepsMonitoring ==
    /\ CallerRuns
    /\ hook.phase = "mounted"
    /\ hook.pending
    /\ hook' = [hook EXCEPT !.isConnected = wallet.isConnected,
                            !.address = wallet.address,
                            !.pending = FALSE]
    /\ lastOp' = Op("useLiveRisk.render",
                    IF wallet.isConnected THEN "connected" ELSE "disconnected")
    /\ lastRound' = NoRound
    /\ UNCHANGED <<riskAlerts, riskMetrics, monitoringInterval, subscribers,
                   timers, microtasks, now, evalCount, published, unsubFns,
                   spent, heldAlerts, heldMetrics, lastSeen, wallet>>
    /\ UNCHANGED beside

\* A render after the wallet changed, and its effects: the effect with the
\* dependency isConnected runs when isConnected differs from the one of the
\* render before, and calls stopMonitoring() when it is false.
Render ==
    LET stops == wallet.isConnected # hook.isConnected /\ ~wallet.isConnected
    IN  /\ CallerRuns
        /\ hook.phase = "mounted"
        /\ hook.pending
        /\ timers' = IF stops THEN stopMonitoring(timers, monitoringInterval)
                     ELSE timers
        /\ monitoringInterval' = IF stops THEN NullTimer ELSE monitoringInterval
        /\ hook' = [hook EXCEPT !.isConnected = wallet.isConnected,
                                !.address = wallet.address,
                                !.isMonitoring = IF stops THEN FALSE ELSE @,
                                !.pending = FALSE]
        /\ lastOp' = Op("useLiveRisk.render",
                        IF wallet.isConnected THEN "connected" ELSE "disconnected")
        /\ lastRound' = NoRound
        /\ UNCHANGED <<riskAlerts, riskMetrics, subscribers, microtasks, now,
                       evalCount, published, unsubFns, spent, heldAlerts,
                       heldMetrics, lastSeen, wallet>>
        /\ UNCHANGED beside

\* the startMonitoring of the hook, as made by its latest render: it returns
\* at once unless that render saw a connected wallet with an address
HookStartMonitoring(portfolio, crash) ==
    /\ CallerRuns
    /\ hook.phase = "mounted"
    /\ IF ~hook.isConnected \/ hook.address = ""
       THEN /\ lastOp' = Op("useLiveRisk.startMonitoring", "disconnected")
            /\ UNCHANGED <<timers, microtasks, monitoringInterval, evalCount,
                           hook>>
       ELSE /\ evalCount < MaxEvals
            /\ timers' = stopMonitoring(timers, monitoringInterval)
                            \cup {setInterval(evalCount + 1, portfolio, 1)}
            /\ microtasks' = callAssessPortfolioRisk(microtasks, portfolio, crash,
                                                     "startMonitoring")
            /\ monitoringInterval' = evalCount + 1
            /\ evalCount' = evalCount + 1
            /\ hook' = [hook EXCEPT !.isMonitoring = TRUE]
            /\ lastOp' = Op("useLiveRisk.startMonitoring", "connected")
    /\ lastRound' = NoRound
    /\ UNCHANGED <<riskAlerts, riskMetrics, subscribers, now, published,
                   unsubFns, spent, heldAlerts, heldMetrics, lastSeen, wallet>>
    /\ UNCHANGED beside

\* the stopMonitoring of the hook
HookStopMonitoring ==
    /\ CallerRuns
    /\ hook.phase = "mounted"
    /\ timers' = stopMonitoring(timers, monitoringInterval)
    /\ monitoringInterval' = NullTimer
    /\ hook' = [hook EXCEPT !.isMonitoring = FALSE]
    /\ lastOp' = Op("useLiveRisk.stopMonitoring",
                    IF monitoringInterval # NullTimer THEN "monitoring" ELSE "idle")
    /\ lastRound' = NoRound
    /\ UNCHANGED <<riskAlerts, riskMetrics, subscribers, microtasks, now,
                   evalCount, published, unsubFns, spent, heldAlerts,
                   heldMetrics, lastSeen, wallet>>
    /\ UNCHANGED beside

\* the component is unmounted: the cleanups of the effects unsubscribe the
\* callback and stop the service
Unmount ==
    /\ CallerRuns
    /\ hook.phase = "mounted"
    /\ subscribers' = unsubscribe(subscribers, HookCallback)
    /\ spent' = spent \cup {r \in 1..Len(unsubFns) : unsubFns[r] = HookCallback}
    /\ timers' = stopMonitoring(timers, monitoringInterval)
    /\ monitoringInterval' = NullTimer
    /\ hook' = [hook EXCEPT !.phase = "unmounted", !.pending = FALSE]
    /\ lastOp' = Op("useLiveRisk.unmount",
                    IF monitoringInterval # NullTimer THEN "monitoring" ELSE "idle")
    /\ lastRound' = NoRound
    /\ UNCHANGED <<riskAlerts, riskMetrics, microtasks, now, evalCount,
                   published, unsubFns, heldAlerts, heldMetrics, lastSeen, wallet>>
    /\ UNCHANGED beside

(***************************************************************************)
(* Specifications                                                          *)
(***************************************************************************)
\* every operation, every input
Next ==
    \/ \E p \in Portfolios, ms \in Intervals, crash \in BOOLEAN :
          StartMonitoring(p, ms, crash)
    \/ StopMonitoring
    \/ \E t \in timers, crash \in BOOLEAN : Tick(t, crash)
    \/ Elapse
    \/ CompleteEvaluation
    \/ \E cb \in Callbacks : Subscribe(cb)
    \/ \E r \in 1..MaxRegs : Unsubscribe(r)
    \/ \E id \in AlertIds : MarkAlertAsRead(id)
    \/ MarkAllAlertsAsRead
    \/ GetRiskAlerts
    \/ GetRiskMetrics
    \/ \E ref \in Range(heldAlerts) :
          \/ \E b \in BOOLEAN : ConsumerWritesAlert(ref, "isRead", b)
          \/ ConsumerWritesAlert(ref, "severity", "low")
    \/ ConsumerWritesArray
    \/ ConsumerWritesMetrics

Spec == Init /\ [][Next]_vars

\* the monitor loop: the timer, the clock and the evaluations, one subscriber
NextLoop ==
    \/ \E p \in Portfolios, ms \in Intervals, crash \in BOOLEAN :
          StartMonitoring(p, ms, crash)
    \/ StopMonitoring
    \/ \E t \in timers, crash \in BOOLEAN : Tick(t, crash)
    \/ Elapse
    \/ CompleteEvaluation
    \/ Subscribe("cbA")

SpecLoop == Init /\ [][NextLoop]_vars

\* the snapshot: evaluations and read marks
NextSnapshot ==
    \/ \E p \in Portfolios, crash \in BOOLEAN : StartMonitoring(p, 1, crash)
    \/ CompleteEvaluation
    \/ Subscribe("cbA")
    \/ \E id \in AlertIds : MarkAlertAsRead(id)
    \/ MarkAllAlertsAsRead

SpecSnapshot == Init /\ [][NextSnapshot]_vars

\* the consumer: what it reads from the service and writes to what it was handed
NextConsumer ==
    \/ \E crash \in BOOLEAN : StartMonitoring(MixedPortfolio, 1, crash)
    \/ CompleteEvaluation
    \/ Subscribe("cbA")
    \/ MarkAllAlertsAsRead
    \/ GetRiskAlerts
    \/ GetRiskMetrics
    \/ \E ref \in Range(heldAlerts) :
          \/ \E b \in BOOLEAN : ConsumerWritesAlert(ref, "isRead", b)
          \/ ConsumerWritesAlert(ref, "severity", "low")
    \/ ConsumerWritesArray
    \/ ConsumerWritesMetrics

SpecConsumer == Init /\ [][NextConsumer]_vars

\* the subscriber list: subscriptions, unsubscriptions and notification rounds
NextSubscribers ==
    \/ \E p \in {MixedPortfolio, SinglePortfolio} : StartMonitoring(p, 1, FALSE)
    \/ CompleteEvaluation
    \/ \E cb \in Callbacks : Subscribe(cb)
    \/ \E r \in 1..MaxRegs : Unsubscribe(r)
    \/ \E id \in AlertIds : MarkAlertAsRead(id)
    \/ MarkAllAlertsAsRead

SpecSubscribers == Init /\ [][NextSubscribers]_vars

\* one evaluation of a portfolio: the metrics and the alerts it publishes
NextRules ==
    \/ \E p \in RulePortfolios, crash \in BOOLEAN :
          evalCount = 0 /\ StartMonitoring(p, 1, crash)
    \/ CompleteEvaluation

SpecRules == Init /\ [][NextRules]_vars

\* one evaluation of a portfolio whose token array is sparse
NextFaults ==
    \/ \E p \in SparsePortfolios, crash \in BOOLEAN :
          evalCount = 0 /\ StartMonitoring(p, 1, crash)
    \/ CompleteEvaluation

SpecFaults == Init /\ [][NextFaults]_vars

\* the monitor loop over portfolios whose evaluation can fail
NextRecovery ==
    \/ \E p \in FaultyPortfolios : StartMonitoring(p, 1, FALSE)
    \/ StopMonitoring
    \/ \E t \in timers : Tick(t, FALSE)
    \/ Elapse
    \/ CompleteEvaluation
    \/ Subscribe("cbA")

SpecRecovery == Init /\ [][NextRecovery]_vars

\* one evaluation of a portfolio, the empty and degenerate ones included
NextDegenerate ==
    \/ \E p \in DegeneratePortfolios \cup RulePortfolios \cup SparsePortfolios,
          crash \in BOOLEAN :
          evalCount = 0 /\ StartMonitoring(p, 1, crash)
    \/ CompleteEvaluation

SpecDegenerate == Init /\ [][NextDegenerate]_vars

\* the aggregation of the portfolios fetched for the supported chains
InitAggregate ==
    /\ InitService
    /\ chainPortfolios \in ChainInputs
    /\ aggregated = NoPortfolio
    /\ item = NoItem
    /\ itemScore = NoScore
    /\ diversificationRisk = NoRisk
    /\ wallet = Disconnected
    /\ hook = NewHook

NextAggregate == GetAggregatedPortfolio

SpecAggregate == InitAggregate /\ [][NextAggregate]_vars

\* the risk score of a balance item
InitItem ==
    /\ InitService
    /\ chainPortfolios = <<>>
    /\ aggregated = NoPortfolio
    /\ item \in Items
    /\ itemScore = NoScore
    /\ diversificationRisk = NoRisk
    /\ wallet = Disconnected
    /\ hook = NewHook

NextItem == CalculateRiskScore

SpecItem == InitItem /\ [][NextItem]_vars

\* one portfolio given to the live metric and to the analysis helper
NextCompare ==
    \/ \E p \in SummedPortfolios :
          evalCount = 0 /\ StartMonitoring(p, 1, FALSE)
    \/ CompleteEvaluation
    \/ CalculateDiversificationRisk

SpecCompare == Init /\ [][NextCompare]_vars

\* notification rounds whose callbacks unsubscribe, subscribe or throw
NextActing ==
    \/ \E c \in Callbacks : Subscribe(c)
    \/ evalCount = 0 /\ StartMonitoring(SinglePortfolio, 1, FALSE)
    \/ \E react \in [Callbacks -> Reactions] : CompleteEvaluationActing(react)
    \/ \E id \in AlertIds, react \in [Callbacks -> Reactions] :
          MarkAlertAsReadActing(id, react)
    \/ \E react \in [Callbacks -> Reactions] : MarkAllAlertsAsReadActing(react)

SpecActing == Init /\ [][NextActing]_vars

\* the hook, its wallet and the timer of its service
NextHook ==
    \/ \E w \in Wallets : WalletChanges(w)
    \/ Mount
    \/ Render
    \/ \E p \in Portfolios, crash \in BOOLEAN : HookStartMonitoring(p, crash)
    \/ HookStopMonitoring
    \/ Unmount
    \/ \E t \in timers, crash \in BOOLEAN : Tick(t, crash)
    \/ Elapse
    \/ CompleteEvaluation

SpecHook == Init /\ [][NextHook]_vars

(***************************************************************************)
(* Properties of the monitor loop (SpecLoop)                               *)
(***************************************************************************)
\* a notification round made by an evaluation
EvaluationRound ==
    /\ lastRound.cause \in {"startMonitoring", "setInterval"}
    /\ lastRound.calls # <<>>

\* C1: once stopMonitoring() has returned (and monitoring has not been
\* started again) no subscriber callback is invoked by an evaluation.
C1_NoCallbackAfterStop == EvaluationRound => monitoringInterval # NullTimer

\* C2: at most one repeating timer is active, it is the one the service
\* refers to, and a timer the service no longer refers to never fires.
C2_AtMostOneTimer ==
    /\ Cardinality(timers) <= 1
    /\ \A t \in timers : t.id = monitoringInterval
    /\ lastOp # Op("tick", "orphan")

\* C2 witness: startMonitoring was called while already monitoring.
C2_Restarted ==
    /\ lastOp = Op("startMonitoring", "monitoring")
    /\ Cardinality(timers) = 1

\* C3: startMonitoring makes the monitor Monitoring and starts one immediate
\* evaluation; every evaluation is published exactly once and before the next
\* tick; while monitoring the timer has fired once per elapsed interval and
\* each firing starts one evaluation; stopMonitoring makes the monitor Idle.
C3_Lifecycle ==
    /\ evalCount = published + Len(microtasks)
    /\ lastOp.op = "startMonitoring" =>
          /\ monitoringInterval # NullTimer
          /\ microtasks # <<>>
          /\ microtasks[Len(microtasks)].origin = "startMonitoring"
          /\ microtasks[Len(microtasks)].metrics.ref = evalCount
    /\ lastOp.op = "tick" =>
          /\ Len(microtasks) = 1
          /\ microtasks[1].origin = "setInterval"
          /\ microtasks[1].metrics.ref = evalCount
    /\ lastOp.op = "assessPortfolioRisk" =>
          /\ riskMetrics.ref = published
          /\ Len(lastRound.calls) = Len(subscribers)
          /\ \A i \in 1..Len(lastRound.calls) :
                lastRound.calls[i].metrics.ref = published
    /\ monitoringInterval # NullTimer =>
          \E t \in timers :
             /\ t.id = monitoringInterval
             /\ t.due = t.set + (t.fired + 1) * t.intervalMs
             /\ now <= t.due
    /\ lastOp.op = "stopMonitoring" =>
          /\ monitoringInterval = NullTimer
          /\ timers = {}

\* C3 witness: the evaluation started by a timer tick has been published to a
\* subscriber, the immediate evaluation having been published before it.
C3_TickPublished ==
    /\ lastOp.op = "assessPortfolioRisk"
    /\ lastRound.cause = "setInterval"
    /\ lastRound.calls # <<>>
    /\ published = 2
    /\ monitoringInterval # NullTimer

\* C10: getRiskMetrics() is null and getRiskAlerts() empty as long as no
\* evaluation has completed, and getRiskMetrics() is not null afterwards,
\* also after stopMonitoring.
C10_NullUntilFirstEvaluation ==
    /\ published = 0 => getRiskMetrics = NullMetrics /\ getRiskAlerts = <<>>
    /\ published > 0 => getRiskMetrics # NullMetrics

\* C10 witness: monitoring was stopped after an evaluation had completed.
C10_StoppedAfterEvaluation ==
    /\ published > 0
    /\ lastOp = Op("stopMonitoring", "monitoring")
    /\ getRiskMetrics # NullMetrics

(***************************************************************************)
(* Properties of the snapshot (SpecSnapshot)                               *)
(***************************************************************************)
\* every registered subscriber was invoked once, in order, with the snapshot
\* the service holds after the step
NotifiedWithSnapshot ==
    /\ Len(lastRound'.calls) = Len(subscribers')
    /\ \A i \in 1..Len(lastRound'.calls) :
          /\ lastRound'.calls[i].reg = subscribers'[i].reg
          /\ lastRound'.calls[i].alerts = riskAlerts'
          /\ lastRound'.calls[i].metrics = riskMetrics'

\* the step of an evaluation that completes
Completes == published' = published + 1

\* C4: a completed evaluation replaces the snapshot wholesale: the alert
\* list is the list that evaluation generated, every alert unread and created
\* by that evaluation, no alert object of the previous snapshot is kept, the
\* metrics are that evaluation's, and the subscribers are notified with
\* exactly this snapshot.
C4_SnapshotReplaced ==
    [][Completes =>
          /\ riskAlerts' = Head(microtasks).alerts
          /\ riskMetrics' = Head(microtasks).metrics
          /\ riskMetrics'.ref = published'
          /\ \A i \in 1..Len(riskAlerts') :
                /\ ~riskAlerts'[i].isRead
                /\ riskAlerts'[i].ref[1] = published'
                /\ \A j \in 1..Len(riskAlerts) :
                      riskAlerts'[i].ref # riskAlerts[j].ref
          /\ NotifiedWithSnapshot]_vars

\* C4 witness: an evaluation has completed over a snapshot that held a read
\* alert of a rule that fired again, and a subscriber has been notified.
C4_PublishedOverRead ==
    /\ lastOp = Op("assessPortfolioRisk", "published over read")
    /\ lastRound.calls # <<>>
    /\ riskAlerts # <<>>

\* the step of a markAlertAsRead or markAllAlertsAsRead call
Marks == lastOp'.op \in {"markAlertAsRead", "markAllAlertsAsRead"}

\* only isRead flags change, and only to true; no evaluation runs and the
\* timer is left alone
MarkFrame ==
    /\ riskMetrics' = riskMetrics
    /\ Len(riskAlerts') = Len(riskAlerts)
    /\ \A i \in 1..Len(riskAlerts) :
          /\ [riskAlerts'[i] EXCEPT !.isRead = riskAlerts[i].isRead] = riskAlerts[i]
          /\ riskAlerts[i].isRead => riskAlerts'[i].isRead
    /\ UNCHANGED <<monitoringInterval, timers, microtasks, evalCount, published,
                   subscribers>>

\* C7 as stated: both operations keep the frame and always notify.
C7_MarkNotifiesAlways == [][Marks => MarkFrame /\ NotifiedWithSnapshot]_vars

\* C7 as amended: both operations keep the frame; markAllAlertsAsRead always
\* notifies; markAlertAsRead(id) marks the first alert with that id and
\* notifies when the snapshot holds such an alert, and otherwise changes
\* nothing and invokes no callback.
C7_MarkFrameAndNotify ==
    [][Marks =>
          /\ MarkFrame
          /\ IF lastOp' = Op("markAlertAsRead", "absent")
             THEN /\ riskAlerts' = riskAlerts
                  /\ lastRound' = NoRound
             ELSE NotifiedWithSnapshot
          /\ lastOp'.op = "markAllAlertsAsRead" =>
                \A i \in 1..Len(riskAlerts') : riskAlerts'[i].isRead
          /\ lastOp' = Op("markAlertAsRead", "unread") =>
                \E i \in 1..Len(riskAlerts) :
                   /\ ~riskAlerts[i].isRead
                   /\ riskAlerts' = [riskAlerts EXCEPT ![i].isRead = TRUE]]_vars

\* C7 witness: markAlertAsRead has marked one of several alerts and the
\* subscribers have been notified.
C7_MarkedOne ==
    /\ lastOp = Op("markAlertAsRead", "unread")
    /\ lastRound.calls # <<>>
    /\ Len(riskAlerts) >= 2
    /\ \E i \in 1..Len(riskAlerts) : ~riskAlerts[i].isRead

\* C8: markAlertAsRead(id) for an alert that is already read leaves the
\* state of the service, the timers and the pending evaluations unchanged and
\* invokes every subscriber exactly once.
C8_MarkReadIdempotent ==
    [][lastOp' = Op("markAlertAsRead", "read") =>
          /\ UNCHANGED <<service, timers, microtasks, evalCount, published>>
          /\ NotifiedWithSnapshot]_vars

\* C8 witness: an already read alert has been marked again while a
\* subscriber is registered.
C8_MarkedAgain ==
    /\ lastOp = Op("markAlertAsRead", "read")
    /\ subscribers # <<>>
    /\ lastRound.cause = "markAlertAsRead"

(***************************************************************************)
(* Properties of the subscriber list (SpecSubscribers)                     *)
(***************************************************************************)
\* C5: in every notification round the subscribers are invoked in the order
\* of their registration, each with the snapshot the service holds, and no
\* callback receives a snapshot of an earlier evaluation than the one it, or
\* a callback invoked before it, has received.
C5_RegistrationOrderLatestSnapshot ==
    /\ [](/\ lastRound.cause # "none" => Len(lastRound.calls) = Len(subscribers)
          /\ \A i \in 1..Len(lastRound.calls) :
                /\ lastRound.calls[i].cb = subscribers[i].cb
                /\ lastRound.calls[i].alerts = riskAlerts
                /\ lastRound.calls[i].metrics = riskMetrics
                /\ \A j \in 1..(i - 1) :
                      /\ lastRound.calls[j].reg < lastRound.calls[i].reg
                      /\ lastRound.calls[j].metrics.ref
                            <= lastRound.calls[i].metrics.ref)
    /\ [][/\ riskMetrics'.ref >= riskMetrics.ref
          /\ \A c \in Callbacks : lastSeen'[c] >= lastSeen[c]]_vars

\* C5 witness: two different callbacks have been notified of the second
\* evaluation's snapshot.
C5_TwoNotifiedOfSecond ==
    /\ Len(lastRound.calls) = 2
    /\ lastRound.calls[1].cb # lastRound.calls[2].cb
    /\ lastRound.calls[2].metrics.ref = 2
    /\ lastSeen[lastRound.calls[1].cb] = 2

\* the callbacks whose registration has not been unsubscribed, in the order
\* of the subscribe calls
ActiveRegistrations ==
    LET regs == SelectSeq([r \in 1..Len(unsubFns) |-> r],
                          LAMBDA r : r \notin spent)
    IN  [i \in 1..Len(regs) |-> unsubFns[regs[i]]]

\* C6: an unsubscribe function removes exactly the registration it was
\* returned for, and nothing when called again: the subscriber list is the
\* list of the registrations not yet unsubscribed, in their original order.
C6_UnsubscribeRemovesOwnRegistration ==
    [i \in 1..Len(subscribers) |-> subscribers[i].cb] = ActiveRegistrations

(***************************************************************************)
(* Properties of the consumer's view (SpecConsumer)                        *)
(***************************************************************************)
\* C9: nothing the consumer writes to what it was handed changes what
\* getRiskAlerts() and getRiskMetrics() return.
C9_NoReferenceEscapes ==
    [][lastOp'.op = "consumer" =>
          /\ getRiskAlerts' = getRiskAlerts
          /\ getRiskMetrics' = getRiskMetrics]_vars

(***************************************************************************)
(* stopMonitoring when nothing is monitored (SpecLoop)                     *)
(***************************************************************************)
\* C11: stopMonitoring() called when no monitoring is active (never started,
\* or already stopped) does nothing: no subscriber is notified, the alerts,
\* the metrics, the subscriber list, the timer handle, the timers and the
\* suspended evaluations are what they were; so a second stopMonitoring()
\* adds nothing to the first.
C11_IdleStopIsNoOp ==
    [][lastOp' = Op("stopMonitoring", "idle") =>
          /\ lastRound' = NoRound
          /\ UNCHANGED <<riskAlerts, riskMetrics, subscribers,
                         monitoringInterval, timers, microtasks, lastSeen,
                         heldAlerts, heldMetrics>>]_vars

\* C11 witness: stopMonitoring() was called on an idle service that holds a
\* snapshot and has a subscriber.
C11_StoppedTwice ==
    /\ lastOp = Op("stopMonitoring", "idle")
    /\ riskMetrics # NullMetrics
    /\ riskAlerts # <<>>
    /\ subscribers # <<>>

(***************************************************************************)
(* Properties of one evaluation (SpecRules)                                *)
(***************************************************************************)
\* the portfolio the snapshot held by the service was computed from: the one
\* passed to the startMonitoring call whose evaluation made riskMetrics
Evaluated == {t.portfolio : t \in {u \in timers : u.id = riskMetrics.ref}}

ZeroPortfolio(p) == Len(p.tokens) = 0 \/ p.totalValue = 0

\* C12: for every portfolio whose token list is empty or whose totalValue is
\* 0, a non-empty token list with totalValue 0 included, the evaluation
\* yields portfolioRiskScore, volatilityIndex, liquidityScore,
\* concentrationRisk and securityScore all equal to 0.
C12_ZeroPortfolioMetrics ==
    \A p \in Evaluated :
        ZeroPortfolio(p) =>
            /\ riskMetrics.portfolioRiskScore = 0
            /\ riskMetrics.volatilityIndex = 0
            /\ riskMetrics.liquidityScore = 0
            /\ riskMetrics.concentrationRisk = 0
            /\ riskMetrics.securityScore = 0

\* C13: the evaluation of a portfolio whose token list is empty or whose
\* totalValue is 0 produces no price_volatility, concentration_risk,
\* liquidity_drop or security_threat alert (market_crash, the random rule,
\* set aside).
C13_ZeroPortfolioNoAlerts ==
    \A p \in Evaluated :
        ZeroPortfolio(p) =>
            \A i \in 1..Len(riskAlerts) : riskAlerts[i].type = "market_crash"

\* the value-weighted mean of the per-token risk scores, rounded to the
\* nearest integer; 0 by definition for an empty token list or totalValue 0
WeightedMeanRisk(portfolio) ==
    LET tokens == portfolio.tokens
        sumValue == SumSeq([i \in 1..Len(tokens) |-> tokens[i].value])
    IN  IF Len(tokens) = 0 \/ portfolio.totalValue = 0 \/ sumValue = 0 THEN 0
        ELSE Round(SumSeq([i \in 1..Len(tokens) |->
                              tokens[i].riskScore * tokens[i].value]),
                   sumValue)

\* C14: for any portfolio (token values >= 0, risk scores in 0..100,
\* totalValue as the caller supplied it) portfolioRiskScore lies in 0..100
\* and is the value-weighted mean of the per-token risk scores, rounded to
\* the nearest integer.
C14_WeightedRiskBound ==
    \A p \in Evaluated :
        /\ riskMetrics.portfolioRiskScore \in 0..100
        /\ riskMetrics.portfolioRiskScore = WeightedMeanRisk(p)

\* C15: in every snapshot the service holds, volatilityIndex, liquidityScore,
\* concentrationRisk and securityScore are integers in 0..100, whatever
\* portfolio the caller passed.
C15_MetricsInRange ==
    riskMetrics # NullMetrics =>
        /\ riskMetrics.volatilityIndex \in 0..100
        /\ riskMetrics.liquidityScore \in 0..100
        /\ riskMetrics.concentrationRisk \in 0..100
        /\ riskMetrics.securityScore \in 0..100

\* n >= 1 tokens of one positive value, totalValue the sum of the values
EqualValued(p) ==
    /\ Len(p.tokens) >= 1
    /\ p.tokens[1].value > 0
    /\ \A i \in 1..Len(p.tokens) : p.tokens[i].value = p.tokens[1].value
    /\ p.totalValue = Len(p.tokens) * p.tokens[1].value

\* C16: a portfolio whose single token holds the whole totalValue has
\* concentrationRisk 100, and a portfolio of N >= 1 tokens of equal positive
\* value, totalValue their sum, has concentrationRisk round(100 / N).
C16_EqualValueConcentration ==
    \A p \in Evaluated :
        /\ (Len(p.tokens) = 1 /\ p.totalValue > 0
                /\ p.tokens[1].value = p.totalValue) =>
              riskMetrics.concentrationRisk = 100
        /\ EqualValued(p) =>
              riskMetrics.concentrationRisk = Round(100, Len(p.tokens))

\* C16 witness: six tokens of equal value were evaluated, and 100 / 6 was
\* rounded up to 17.
C16_SixEqualTokens ==
    \E p \in Evaluated :
        /\ EqualValued(p)
        /\ Len(p.tokens) = 6
        /\ riskMetrics.concentrationRisk = 17

\* the tokens of a portfolio that moved by more than 20% in 24 hours, up or
\* down (change24h is in hundredths of a percent)
Exceeding(p) ==
    {i \in 1..Len(p.tokens) :
        p.tokens[i].change24h > 2000 \/ p.tokens[i].change24h < -2000}

\* the alerts of a type in the snapshot
AlertsOfType(type) == {i \in 1..Len(riskAlerts) : riskAlerts[i].type = type}

\* C17: an evaluation emits a price_volatility alert if and only if at least
\* one token has |change24h| strictly greater than 20 (exactly 20 or -20 does
\* not count); the alert is high when more than 2 tokens exceed the threshold
\* and medium otherwise.
C17_PriceVolatilityRule ==
    \A p \in Evaluated :
        /\ AlertsOfType("price_volatility") # {} <=> Exceeding(p) # {}
        /\ \A i \in AlertsOfType("price_volatility") :
              riskAlerts[i].severity =
                  IF Cardinality(Exceeding(p)) > 2 THEN "high" ELSE "medium"

\* C17 witness: of three tokens one moved by exactly 20% and two by more, and
\* the alert is medium.
C17_TwoOfThreeExceed ==
    \E p \in Evaluated :
        /\ Len(p.tokens) = 3
        /\ \E i \in 1..3 : p.tokens[i].change24h = 2000
        /\ Cardinality(Exceeding(p)) = 2
        /\ \E i \in AlertsOfType("price_volatility") :
              riskAlerts[i].severity = "medium"

\* C18: the rules on the metrics compare strictly, against the metrics of the
\* same evaluation: concentration_risk fires iff concentrationRisk > 70 and is
\* high iff > 85, else medium; liquidity_drop fires iff liquidityScore < 30
\* and is high iff < 15, else medium; security_threat fires iff securityScore
\* < 40 and is critical iff < 20, else high.
C18_MetricThresholdRules ==
    riskMetrics # NullMetrics =>
        /\ AlertsOfType("concentration_risk") # {}
              <=> riskMetrics.concentrationRisk > 70
        /\ \A i \in AlertsOfType("concentration_risk") :
              riskAlerts[i].severity =
                  IF riskMetrics.concentrationRisk > 85 THEN "high" ELSE "medium"
        /\ AlertsOfType("liquidity_drop") # {}
              <=> riskMetrics.liquidityScore < 30
        /\ \A i \in AlertsOfType("liquidity_drop") :
              riskAlerts[i].severity =
                  IF riskMetrics.liquidityScore < 15 THEN "high" ELSE "medium"
        /\ AlertsOfType("security_threat") # {}
              <=> riskMetrics.securityScore < 40
        /\ \A i \in AlertsOfType("security_threat") :
              riskAlerts[i].severity =
                  IF riskMetrics.securityScore < 20 THEN "critical" ELSE "high"

\* C18 witness: a snapshot whose metrics are exactly 85, 15 and 20, with the
\* three alerts at their lower severity.
C18_OnUpperThresholds ==
    /\ riskMetrics # NullMetrics
    /\ riskMetrics.concentrationRisk = 85
    /\ riskMetrics.liquidityScore = 15
    /\ riskMetrics.securityScore = 20
    /\ \E i \in AlertsOfType("concentration_risk") :
          riskAlerts[i].severity = "medium"
    /\ \E i \in AlertsOfType("liquidity_drop") : riskAlerts[i].severity = "medium"
    /\ \E i \in AlertsOfType("security_threat") : riskAlerts[i].severity = "high"

\* a snapshot whose metrics are exactly 70, 30 and 40, with no alert
OnLowerThresholds ==
    /\ riskMetrics # NullMetrics
    /\ riskMetrics.concentrationRisk = 70
    /\ riskMetrics.liquidityScore = 30
    /\ riskMetrics.securityScore = 40
    /\ riskAlerts = <<>>

(***************************************************************************)
(* Alert identity (SpecLoop)                                               *)
(***************************************************************************)
\* the alert lists in existence: the snapshot and those of the suspended
\* evaluations
AlertLists == {riskAlerts} \cup {microtasks[i].alerts : i \in 1..Len(microtasks)}

\* C19: each rule that triggers contributes exactly one alert to its
\* evaluation's list, so a list holds at most one alert per type, and the id
\* of an alert differs from the id of every other alert created, those of the
\* same type created by other evaluations at the same clock reading included.
C19_OneAlertPerRuleFreshIds ==
    /\ \A list \in AlertLists :
          \A i, j \in 1..Len(list) : list[i].type = list[j].type => i = j
    /\ \A l1, l2 \in AlertLists :
          \A i \in 1..Len(l1), j \in 1..Len(l2) :
              l1[i].ref # l2[j].ref => l1[i].id # l2[j].id

\* a list holds at most one alert per type
OneAlertPerType ==
    \A list \in AlertLists :
        \A i, j \in 1..Len(list) : list[i].type = list[j].type => i = j

(***************************************************************************)
(* A rule that raises (SpecFaults)                                         *)
(***************************************************************************)
\* C20: when one rule of an evaluation raises, the remaining rules of that
\* evaluation are still evaluated and their alerts are published in that
\* cycle's snapshot.
C20_RuleFailuresIsolated ==
    lastOp = Op("assessPortfolioRisk", "caught") =>
        \A t \in timers :
            t.id = evalCount =>
                LET metrics == calculateRiskMetrics(t.portfolio, t.set, t.id)
                IN  /\ riskMetrics.ref = t.id
                    /\ volatilityRule(t.portfolio.tokens, t.set, t.id) # <<>>
                          => AlertsOfType("price_volatility") # {}
                    /\ liquidityRule(metrics, t.set, t.id) # <<>>
                          => AlertsOfType("liquidity_drop") # {}
                    /\ securityRule(metrics, t.set, t.id) # <<>>
                          => AlertsOfType("security_threat") # {}

(***************************************************************************)
(* Failed evaluations (SpecRecovery)                                       *)
(***************************************************************************)
\* the assessPortfolioRisk calls that have ended in their catch block
failures == evalCount - published - Len(microtasks)

\* C21: an evaluation that fails while computing metrics or alerts is caught:
\* the snapshot and the subscriber list are what they were, no subscriber is
\* notified, no timer is lost (other than the one a restart replaces) and the
\* timer the service refers to is still active, so later ticks are evaluated.
C21_FailedEvaluationContained ==
    [][failures' > failures =>
          /\ UNCHANGED <<riskAlerts, riskMetrics, subscribers>>
          /\ lastRound' = NoRound
          /\ lastOp'.op # "startMonitoring" =>
                \A t \in timers : \E u \in timers' : u.id = t.id
          /\ monitoringInterval' # NullTimer =>
                \E u \in timers' :
                    u.id = monitoringInterval' /\ u.due >= now']_vars

\* C21 witness: an evaluation has failed while the service held a snapshot
\* and had a subscriber, and the service is still monitoring.
C21_FailedOverSnapshot ==
    /\ failures > 0
    /\ riskMetrics # NullMetrics
    /\ subscribers # <<>>
    /\ monitoringInterval # NullTimer
    /\ \E t \in timers : t.id = monitoringInterval

\* the timer has fired and its evaluation has run after an earlier evaluation
\* failed
TickAfterFailure ==
    /\ lastOp = Op("tick", "current")
    /\ evalCount = 2
    /\ failures + Len(microtasks) = 2

(***************************************************************************)
(* Empty and degenerate portfolios (SpecDegenerate)                        *)
(***************************************************************************)
Degenerate(p) == Len(tokensOf(p)) = 0 \/ totalValueOf(p) = 0

FetchedTokens ==
    UNION {{<<c, i>> : i \in 1..Len(chainPortfolios[c].tokens)} :
           c \in 1..Len(chainPortfolios)}

FetchedToken(ci) == chainPortfolios[ci[1]].tokens[ci[2]]

\* the (contractAddress, symbol) key of a token
KeyOf(token) == <<token.contractAddress, token.symbol>>

RECURSIVE SumOver(_, _, _)
\* the sum of a field over the fetched tokens of a set that have a key
SumOver(cis, key, field) ==
    IF cis = {} THEN 0
    ELSE LET ci == CHOOSE x \in cis : TRUE
             own == IF KeyOf(FetchedToken(ci)) = key
                    THEN (IF field = "balance" THEN FetchedToken(ci).balance
                          ELSE FetchedToken(ci).value)
                    ELSE 0
         IN  own + SumOver(cis \ {ci}, key, field)

\* C23: given per-chain portfolios whose totalValue is the sum of their token
\* values, getAggregatedPortfolio returns one token per distinct
\* (contractAddress, symbol) key, with balance and value the sums over all
\* the input tokens of that key, and a totalValue equal to the sum of the
\* values of the returned tokens.
C23_AggregationKeepsInvariant ==
    aggregated # NoPortfolio =>
        LET out == aggregated.tokens
        IN  /\ \A i, j \in 1..Len(out) : KeyOf(out[i]) = KeyOf(out[j]) => i = j
            /\ {KeyOf(out[i]) : i \in 1..Len(out)}
                  = {KeyOf(FetchedToken(ci)) : ci \in FetchedTokens}
            /\ \A i \in 1..Len(out) :
                  /\ out[i].balance = SumOver(FetchedTokens, KeyOf(out[i]), "balance")
                  /\ out[i].value = SumOver(FetchedTokens, KeyOf(out[i]), "value")
            /\ aggregated.totalValue
                  = SumSeq([i \in 1..Len(out) |-> out[i].value])

\* C23 witness: two chains were aggregated into a token merged from several
\* and a token of another key.
C23_MergedAcrossChains ==
    /\ aggregated # NoPortfolio
    /\ Len(chainPortfolios) = 2
    /\ Len(aggregated.tokens) = 2
    /\ \E i \in 1..2 : aggregated.tokens[i].chain = "Multi-Chain"
    /\ aggregated.totalValue > 0

(***************************************************************************)
(* Security score (SpecRules)                                              *)
(***************************************************************************)
\* C24: for every non-empty token list with risk scores in 0..100, scores of
\* 0 included, securityScore is the mean of the per-token riskScore values
\* rounded to the nearest integer.
C24_SecurityScoreIsMean ==
    \A p \in Evaluated :
        Len(p.tokens) > 0 =>
            riskMetrics.securityScore
                = Round(SumSeq([i \in 1..Len(p.tokens) |-> p.tokens[i].riskScore]),
                        Len(p.tokens))

(***************************************************************************)
(* Per-token risk score (SpecItem)                                         *)
(***************************************************************************)
\* the age of the contract of the item in days, when it has a creation date
HasAge(days) ==
    /\ item.contract_created_at.kind = "date"
    /\ Today - item.contract_created_at.day = days

OlderThan(days) ==
    /\ item.contract_created_at.kind = "date"
    /\ Today - item.contract_created_at.day > days

Compared(p) == p \in Evaluated /\ diversificationRisk # NoRisk

RoundMade == lastRound'.cause # "none"

\* the invocations of subscribe call reg in the round of the step
InvocationsOf(reg) ==
    {j \in 1..Len(lastRound'.calls) : lastRound'.calls[j].reg = reg}

\* what the callbacks invoked in the round of the step did
Done == {lastRound'.calls[j].did.kind : j \in 1..Len(lastRound'.calls)}

\* C27: every subscriber registered when a notification round begins is
\* invoked exactly once in that round, also when a callback calls its own or
\* another subscriber's unsubscribe function, or subscribes a new callback,
\* during the round.
C27_EachSubscriberOnce ==
    [][RoundMade /\ "throw" \notin Done =>
          \A i \in 1..Len(subscribers) :
              Cardinality(InvocationsOf(subscribers[i].reg)) = 1]_vars

\* C29: a callback that throws does not keep the subscribers registered
\* after it from being notified in the same round, whichever operation
\* started the round.
C29_ThrowDoesNotStopRound ==
    [][RoundMade /\ Done \subseteq {"return", "throw"} =>
          \A i \in 1..Len(subscribers) :
              InvocationsOf(subscribers[i].reg) # {}]_vars

(***************************************************************************)
(* Restart (SpecLoop)                                                      *)
(***************************************************************************)
MetricNames ==
    {"portfolioRiskScore", "volatilityIndex", "liquidityScore",
     "concentrationRisk", "securityScore"}

\* the metrics are the ones of portfolio p
MetricsAreOf(metrics, p) ==
    \A f \in MetricNames : metrics[f] = calculateRiskMetrics(p, 0, 0)[f]

\* the portfolio passed to the most recent startMonitoring call
Monitored == {t.portfolio : t \in {u \in timers : u.id = monitoringInterval}}

Settled == hook.phase = "mounted" /\ ~hook.pending

\* the service has an active timer
TimerActive == monitoringInterval # NullTimer /\ timers # {}

\* C30: monitoring runs only while a wallet is connected.  The hook's
\* startMonitoring does nothing when the wallet is not connected; once the
\* effects have run, isMonitoring is true exactly when the service has an
\* active timer, and both are off when the wallet is disconnected, so a
\* disconnect has stopped the timer; an unmounted hook leaves no timer.
C30_MonitoringOnlyWhileConnected ==
    /\ [](Settled =>
              /\ hook.isMonitoring <=> TimerActive
              /\ ~wallet.isConnected => ~hook.isMonitoring /\ timers = {})
    /\ [](monitoringInterval = NullTimer <=> timers = {})
    /\ [](hook.phase = "unmounted" => ~TimerActive /\ timers = {})
    /\ [][lastOp'.op = "useLiveRisk.startMonitoring" /\ ~hook.isConnected =>
              UNCHANGED <<service, timers, microtasks, evalCount, hook>>]_vars

\* C30 witness: the wallet disconnected while its portfolio was monitored,
\* and the effects of the render that followed have stopped the timer.
C30_StoppedByDisconnect ==
    /\ Settled
    /\ lastOp = Op("useLiveRisk.render", "disconnected")
    /\ evalCount > 0
    /\ ~hook.isMonitoring
    /\ timers = {}

====
